---- MODULE Spec2Model ----
(***************************************************************************)
(* Model of lzero/policy/utils.py: select_action, configure_optimizers,     *)
(* prepare_obs and concat_output.  Every routine is a pure function, so     *)
(* each gets a specification whose Init draws the inputs from bounded sets  *)
(* and whose actions apply the routine and record what it returned or       *)
(* raised.                                                                  *)
(***************************************************************************)
EXTENDS Integers, Sequences, FiniteSets, TLC

VARIABLES
    visit_counts,   \* select_action: argument visit_counts (0-based in the code, 1-based here)
    temperature,    \* select_action: argument temperature, the rational num/den
    scalar,         \* select_action: element type of visit_counts, "numpy" or "python"
    det_ret,        \* outcome of select_action(visit_counts, temperature, deterministic=True)
    sto_ret,        \* outcome of the latest select_action(..., deterministic=False)
    model,          \* configure_optimizers: the module tree of the model argument
    opt_ret,        \* outcome of configure_optimizers(model)
    obs_batch_ori,  \* prepare_obs: argument obs_batch_ori
    cfg,            \* prepare_obs: argument cfg
    obs_ret,        \* outcome of prepare_obs(obs_batch_ori, cfg)
    output_lst,     \* concat_output: argument output_lst
    data_type,      \* concat_output: argument data_type
    cat_ret         \* outcome of concat_output(output_lst, data_type)

vars == <<visit_counts, temperature, scalar, det_ret, sto_ret, model, opt_ret,
          obs_batch_ori, cfg, obs_ret, output_lst, data_type, cat_ret>>

selectVars == <<visit_counts, temperature, scalar, det_ret, sto_ret>>
optVars == <<model, opt_ret>>
obsVars == <<obs_batch_ori, cfg, obs_ret>>
catVars == <<output_lst, data_type, cat_ret>>

\* value of the variables of the routines a specification does not exercise
Idle == "idle"

----------------------------------------------------------------------------
(* Bounds *)

\* longest visit-count sequence
MaxActions == 3
\* largest visit count of one action
MaxVisit == 3
\* largest number of sub-modules below the root module of a model
MaxModules == 2
\* largest number of stacked timesteps in an observation batch
MaxTimesteps == 9
\* largest cfg.model.frame_stack_num
MaxFrameStack == 4
\* longest list of model outputs
MaxRecords == 3
\* largest batch size of one model output
MaxBatch == 2

----------------------------------------------------------------------------
(* Arithmetic helpers *)

RECURSIVE Pow(_, _)
Pow(b, e) == IF e = 0 THEN 1 ELSE b * Pow(b, e - 1)

RECURSIVE SumSeq(_)
SumSeq(s) == IF s = <<>> THEN 0 ELSE Head(s) + SumSeq(Tail(s))

RECURSIVE ProdSeq(_)
ProdSeq(s) == IF s = <<>> THEN 1 ELSE Head(s) * ProdSeq(Tail(s))

RECURSIVE FloorLog2(_)
FloorLog2(n) == IF n < 2 THEN 0 ELSE 1 + FloorLog2(n \div 2)

\* fractional bits of log2 of the mantissa x/4096 in [1, 2), by repeated squaring
RECURSIVE Log2Frac(_, _)
Log2Frac(x, bits) ==
    IF bits = 0 THEN 0
    ELSE LET sq == (x * x) \div 4096
         IN  IF sq >= 8192
             THEN Pow(2, bits - 1) + Log2Frac(sq \div 2, bits - 1)
             ELSE Log2Frac(sq, bits - 1)

\* log2(n) in units of 1/256 bit, n >= 1
Log2Fix(n) ==
    LET k == FloorLog2(n)
    IN  k * 256 + Log2Frac((n * 4096) \div Pow(2, k), 8)

----------------------------------------------------------------------------
(* select_action *)

\* temperatures num/den; the reciprocal den/num is an integer for each of them
Temperatures ==
    { [num |-> 1, den |-> 1], [num |-> 1, den |-> 2], [num |-> 1, den |-> 4],
      [num |-> 0, den |-> 1], [num |-> -1, den |-> 1] }

ScalarTypes == {"numpy", "python"}

VisitCountSeqs == UNION { [1..n -> 0..MaxVisit] : n \in 1..MaxActions }

Fin(n) == [k |-> "fin", n |-> n]
Inf == [k |-> "inf", n |-> 0]
NaN == [k |-> "nan", n |-> 0]

NotCalled == [status |-> "none", action_pos |-> -1, entropy |-> Fin(0)]
Raised(e) == [status |-> e, action_pos |-> -1, entropy |-> Fin(0)]

\* line 220: [visit_count_i ** (1 / temperature) for visit_count_i in visit_counts].
\* The weights are floats n/scale on one common scale, or inf.
ActionWeights(vc, t, sc) ==
    IF t.num = 0 THEN [status |-> "ZeroDivisionError", w |-> <<>>]
    ELSE LET e == t.den \div (IF t.num > 0 THEN t.num ELSE -t.num)
         IN  IF t.num > 0
             THEN [status |-> "ok", w |-> [i \in DOMAIN vc |-> Fin(Pow(vc[i], e))]]
             ELSE IF sc = "python" /\ \E i \in DOMAIN vc : vc[i] = 0
                  THEN [status |-> "ZeroDivisionError", w |-> <<>>]
                  ELSE LET scale == ProdSeq([i \in DOMAIN vc |->
                                        IF vc[i] = 0 THEN 1 ELSE Pow(vc[i], e)])
                       IN  [status |-> "ok",
                            w |-> [i \in DOMAIN vc |->
                                     IF vc[i] = 0 THEN Inf
                                     ELSE Fin(scale \div Pow(vc[i], e))]]

\* sum(action_probs) of line 221
WeightSum(w) ==
    IF \E i \in DOMAIN w : w[i].k = "inf" THEN Inf
    ELSE Fin(SumSeq([i \in DOMAIN w |-> w[i].n]))

\* line 221: [x / sum(action_probs) for x in action_probs]; the quotients are
\* the fractions p[i].n / den, or nan
ActionProbs(w, sc) ==
    LET total == WeightSum(w)
    IN  IF total.k = "fin" /\ total.n = 0
        THEN IF sc = "python"
             THEN [status |-> "ZeroDivisionError", p |-> <<>>, den |-> 1]
             ELSE [status |-> "ok", p |-> [i \in DOMAIN w |-> NaN], den |-> 1]
        ELSE IF total.k = "inf"
        THEN [status |-> "ok",
              p |-> [i \in DOMAIN w |-> IF w[i].k = "inf" THEN NaN ELSE Fin(0)],
              den |-> 1]
        ELSE [status |-> "ok", p |-> w, den |-> total.n]

HasNaN(p) == \E i \in DOMAIN p : p[i].k = "nan"

\* scan of np.argmax from position i on: best is the position of the largest value so
\* far, replaced only by a strictly larger value
RECURSIVE ArgmaxFrom(_, _, _)
ArgmaxFrom(vc, i, best) ==
    IF i > Len(vc) THEN best
    ELSE ArgmaxFrom(vc, i + 1, IF vc[i] > vc[best] THEN i ELSE best)

\* the same scan replacing best by a value that is larger or equal
RECURSIVE ArgmaxLastFrom(_, _, _)
ArgmaxLastFrom(vc, i, best) ==
    IF i > Len(vc) THEN best
    ELSE ArgmaxLastFrom(vc, i + 1, IF vc[i] >= vc[best] THEN i ELSE best)

\* np.argmax replaced by an argmax that keeps the last occurrence of the maximum
DeterministicAction_LastMax(vc) == ArgmaxLastFrom(vc, 2, 1) - 1

\* line 224: np.argmax([v for v in visit_counts]), 0-based, first occurrence of the maximum
DeterministicAction(vc) == ArgmaxFrom(vc, 2, 1) - 1

CumSum(p, i) == SumSeq([j \in 1..i |-> p[j].n])

\* np.random.choice called without p=action_probs: a uniform draw over the indices
StochasticAction_Uniform(vc, probs, u) ==
    IF HasNaN(probs.p) THEN [status |-> "ValueError", action_pos |-> -1]
    ELSE [status |-> "ok", action_pos |-> u % Len(vc)]

\* line 226: np.random.choice(len(visit_counts), p=action_probs), 0-based.  The uniform
\* draw is u/den with u in 0..den-1; the index is cdf.searchsorted(u, side='right').
StochasticAction(vc, probs, u) ==
    IF HasNaN(probs.p) THEN [status |-> "ValueError", action_pos |-> -1]
    ELSE [status |-> "ok",
          action_pos |-> (CHOOSE i \in DOMAIN vc :
                            /\ CumSum(probs.p, i) > u
                            /\ \A j \in DOMAIN vc : j < i => CumSum(probs.p, j) <= u) - 1]

\* line 228: scipy.stats.entropy(action_probs, base=2): the probabilities are normalised
\* by their sum and the entropy is -sum p*log2(p), here in units of 1/256 bit; nan if a
\* probability is nan
DistributionEntropy(probs) ==
    IF HasNaN(probs.p) THEN NaN
    ELSE LET total == SumSeq([i \in DOMAIN probs.p |-> probs.p[i].n])
         IN  Fin(SumSeq([i \in DOMAIN probs.p |->
                           IF probs.p[i].n = 0 THEN 0
                           ELSE probs.p[i].n * (Log2Fix(total) - Log2Fix(probs.p[i].n))])
                   \div total)

\* the uniform draws u/den given to np.random.choice: the first and the last draw of
\* every step of the cdf (any other draw lies inside a step and finds the same index)
Draws(vc, t, sc) ==
    LET aw == ActionWeights(vc, t, sc)
        probs == ActionProbs(aw.w, sc)
    IN  IF aw.status # "ok" THEN {0}
        ELSE IF probs.status # "ok" \/ HasNaN(probs.p) THEN {0}
        ELSE { u \in {0, probs.den - 1}
                       \cup { CumSum(probs.p, i) : i \in DOMAIN vc }
                       \cup { CumSum(probs.p, i) - 1 : i \in DOMAIN vc } :
                 0 <= u /\ u < probs.den }

\* select_action with the entropy taken inside the branches: the greedy branch reports
\* the entropy of the one-hot choice
select_action_BranchEntropy(vc, t, sc, deterministic, u) ==
    LET aw == ActionWeights(vc, t, sc)
    IN  IF aw.status # "ok" THEN Raised(aw.status)
        ELSE LET probs == ActionProbs(aw.w, sc)
             IN  IF probs.status # "ok" THEN Raised(probs.status)
                 ELSE IF deterministic
                 THEN [status |-> "ok", action_pos |-> DeterministicAction(vc),
                       entropy |-> Fin(0)]
                 ELSE LET drawn == StochasticAction(vc, probs, u)
                      IN  IF drawn.status # "ok" THEN Raised(drawn.status)
                          ELSE [status |-> "ok", action_pos |-> drawn.action_pos,
                                entropy |-> DistributionEntropy(probs)]

\* lines 205-229
select_action(vc, t, sc, deterministic, u) ==
    LET aw == ActionWeights(vc, t, sc)
    IN  IF aw.status # "ok" THEN Raised(aw.status)
        ELSE LET probs == ActionProbs(aw.w, sc)
             IN  IF probs.status # "ok" THEN Raised(probs.status)
                 ELSE IF deterministic
                 THEN [status |-> "ok", action_pos |-> DeterministicAction(vc),
                       entropy |-> DistributionEntropy(probs)]
                 ELSE LET drawn == StochasticAction(vc, probs, u)
                      IN  IF drawn.status # "ok" THEN Raised(drawn.status)
                          ELSE [status |-> "ok", action_pos |-> drawn.action_pos,
                                entropy |-> DistributionEntropy(probs)]

InitSelect ==
    /\ visit_counts \in VisitCountSeqs
    /\ temperature \in Temperatures
    /\ scalar \in ScalarTypes
    /\ det_ret = NotCalled
    /\ sto_ret = NotCalled
    /\ model = Idle /\ opt_ret = Idle
    /\ obs_batch_ori = Idle /\ cfg = Idle /\ obs_ret = Idle
    /\ output_lst = Idle /\ data_type = Idle /\ cat_ret = Idle

SelectDeterministic ==
    /\ det_ret' = select_action(visit_counts, temperature, scalar, TRUE, 0)
    /\ UNCHANGED <<visit_counts, temperature, scalar, sto_ret, optVars, obsVars, catVars>>

SelectStochastic ==
    /\ \E u \in Draws(visit_counts, temperature, scalar) :
          sto_ret' = select_action(visit_counts, temperature, scalar, FALSE, u)
    /\ UNCHANGED <<visit_counts, temperature, scalar, det_ret, optVars, obsVars, catVars>>

NextSelect == SelectDeterministic \/ SelectStochastic

SpecSelect == InitSelect /\ [][NextSelect]_vars

\* the spec's valid input: some action was visited and the temperature is positive
ValidSelectInput ==
    /\ temperature.num > 0
    /\ \E i \in DOMAIN visit_counts : visit_counts[i] > 0

AllZeroCounts == \A i \in DOMAIN visit_counts : visit_counts[i] = 0

\* C1: with some positive visit count and a positive temperature, the deterministic call
\* returns the smallest index holding the maximum visit count, whatever the temperature
C1_DeterministicArgmax ==
    (det_ret # NotCalled /\ ValidSelectInput) =>
        /\ det_ret.status = "ok"
        /\ det_ret.action_pos \in 0..(Len(visit_counts) - 1)
        /\ \A j \in DOMAIN visit_counts :
              /\ visit_counts[j] <= visit_counts[det_ret.action_pos + 1]
              /\ (visit_counts[j] = visit_counts[det_ret.action_pos + 1]
                    => j >= det_ret.action_pos + 1)

\* a tie on the maximum that is not at the first index, under a temperature other than 1
C1_Witness ==
    /\ ValidSelectInput /\ temperature.den = 2
    /\ det_ret.status = "ok" /\ det_ret.action_pos = 1
    /\ Len(visit_counts) = 3
    /\ visit_counts[2] = visit_counts[3] /\ visit_counts[1] < visit_counts[2]

\* C3: with all visit counts zero select_action fails on both branches and returns no pair
C3_AllZeroFails ==
    (AllZeroCounts /\ temperature.num > 0) =>
        /\ det_ret.status # "ok"
        /\ sto_ret.status # "ok"

\* C4: with a temperature that is zero or negative select_action returns no pair
C4_NonPositiveTemperatureFails ==
    temperature.num <= 0 =>
        /\ det_ret.status # "ok"
        /\ sto_ret.status # "ok"

\* C9: the deterministic call and every stochastic call on the same visit counts and
\* temperature return the same entropy
C9_EntropyBranchIndependent ==
    (det_ret.status = "ok" /\ sto_ret.status = "ok") => det_ret.entropy = sto_ret.entropy

\* both branches returned, with different actions and a non-trivial entropy
C9_Witness ==
    /\ det_ret.status = "ok" /\ sto_ret.status = "ok"
    /\ det_ret.action_pos # sto_ret.action_pos
    /\ det_ret.entropy.k = "fin" /\ det_ret.entropy.n > 0

ReturnsVisitedAction(ret) ==
    /\ ret.status = "ok"
    /\ ret.action_pos \in 0..(Len(visit_counts) - 1)
    /\ visit_counts[ret.action_pos + 1] > 0

\* C10: on valid input either branch returns an index inside the sequence whose visit
\* count is positive
C10_SelectedActionVisited ==
    ValidSelectInput =>
        /\ (det_ret # NotCalled => ReturnsVisitedAction(det_ret))
        /\ (sto_ret # NotCalled => ReturnsVisitedAction(sto_ret))

\* a stochastic call returned while unvisited actions sit before and after the chosen one
C10_Witness ==
    /\ ValidSelectInput
    /\ sto_ret.status = "ok" /\ sto_ret.action_pos = 1
    /\ Len(visit_counts) = 3
    /\ visit_counts[1] = 0 /\ visit_counts[3] = 0
    /\ det_ret.status = "ok"

----------------------------------------------------------------------------
(* configure_optimizers *)

\* module classes met in a model, each with its own parameters in registration order
ModuleKinds == {"Linear", "LSTM", "LayerNorm", "Embedding", "Conv1d", "Container"}

KindParams(kind) ==
    CASE kind = "Linear" -> <<"weight", "bias">>
      [] kind = "LSTM" -> <<"weight_ih_l0", "weight_hh_l0", "bias_ih_l0", "bias_hh_l0">>
      [] kind = "LayerNorm" -> <<"weight", "bias">>
      [] kind = "Embedding" -> <<"weight">>
      [] kind = "Conv1d" -> <<"weight", "bias">>
      [] kind = "Container" -> <<>>

\* attribute names under which a sub-module is registered
ModuleNames == {"lstm", "lm_head", "wte"}

\* line 51: whitelist_weight_modules (Conv2d is classified as Linear is)
whitelist_weight_modules == {"Linear", "LSTM"}
\* line 52: blacklist_weight_modules
blacklist_weight_modules == {"LayerNorm", "Embedding"}

IsPrefix(a, b) == Len(a) <= Len(b) /\ SubSeq(b, 1, Len(a)) = a

Prefixes(a) == { SubSeq(a, 1, n) : n \in 0..Len(a) }

Last(s) == s[Len(s)]

\* dotted path of sub-module i (as a sequence of names); module 0 is the root
RECURSIVE PathOf(_, _, _)
PathOf(parents, names, i) ==
    IF i = 0 THEN <<>> ELSE Append(PathOf(parents, names, parents[i]), names[i])

\* the module tree in registration (pre-order) order: nodes[1] is the root, a node is
\* the path of a module and its class
TreeOf(n, kinds, parents, names) ==
    [i \in 1..(n + 1) |-> [path |-> PathOf(parents, names, i - 1), kind |-> kinds[i - 1]]]

\* a sub-module is registered below the previous one or below one of its ancestors,
\* under a name its parent does not use yet
WellFormed(nodes) ==
    /\ \A i \in 2..Len(nodes) :
          SubSeq(nodes[i].path, 1, Len(nodes[i].path) - 1) \in Prefixes(nodes[i - 1].path)
    /\ \A i, j \in DOMAIN nodes : nodes[i].path = nodes[j].path => i = j

HasWeight(node) == \E i \in DOMAIN KindParams(node.kind) : KindParams(node.kind)[i] = "weight"

WeightNodes(nodes) == { i \in DOMAIN nodes : HasWeight(nodes[i]) }

Min(S) == CHOOSE x \in S : \A y \in S : x <= y
Max(S) == CHOOSE x \in S : \A y \in S : x >= y

\* identity of the tensor behind parameter pn of module i; with tied weights the last
\* module that owns a weight shares the tensor of the first one
TensorOf(mdl, i, pn) ==
    IF /\ mdl.tied
       /\ pn = "weight"
       /\ i = Max(WeightNodes(mdl.nodes))
    THEN <<Min(WeightNodes(mdl.nodes)), "weight">>
    ELSE <<i, pn>>

\* the parameters module i owns itself, named relative to module m
OwnParameters(mdl, m, i) ==
    LET rel == SubSeq(mdl.nodes[i].path, Len(mdl.nodes[m].path) + 1, Len(mdl.nodes[i].path))
        own == KindParams(mdl.nodes[i].kind)
    IN  [j \in DOMAIN own |-> [pn |-> Append(rel, own[j]), tensor |-> TensorOf(mdl, i, own[j])]]

\* parameters of modules i..n that lie at or below module m, in registration order
RECURSIVE ParametersFrom(_, _, _)
ParametersFrom(mdl, m, i) ==
    IF i > Len(mdl.nodes) THEN <<>>
    ELSE (IF IsPrefix(mdl.nodes[m].path, mdl.nodes[i].path)
          THEN OwnParameters(mdl, m, i) ELSE <<>>) \o ParametersFrom(mdl, m, i + 1)

\* keep the first name of every tensor
RECURSIVE RemoveDuplicates(_, _)
RemoveDuplicates(ps, seen) ==
    IF ps = <<>> THEN <<>>
    ELSE IF Head(ps).tensor \in seen THEN RemoveDuplicates(Tail(ps), seen)
    ELSE <<Head(ps)>> \o RemoveDuplicates(Tail(ps), seen \cup {Head(ps).tensor})

\* lines 54, 83: m.named_parameters(), recursive and without duplicate tensors
named_parameters(mdl, m) == RemoveDuplicates(ParametersFrom(mdl, m, 1), {})

\* pn.endswith(suffix) for a suffix that is one parameter name
EndsWith(pn, suffix) == Last(pn) = suffix

\* pn.endswith('lstm.' + suffix)
EndsWithLstm(pn, suffix) == Len(pn) >= 2 /\ Last(pn) = suffix /\ pn[Len(pn) - 1] = "lstm"

\* lines 59-70: the bucket the if/elif chain puts parameter pn of module m in
Bucket(kind, pn) ==
    IF EndsWith(pn, "bias") \/ EndsWithLstm(pn, "bias_ih_l0") \/ EndsWithLstm(pn, "bias_hh_l0")
    THEN "no_decay"
    ELSE IF EndsWith(pn, "weight") /\ kind \in whitelist_weight_modules
    THEN "decay"
    ELSE IF (EndsWith(pn, "weight_ih_l0") \/ EndsWith(pn, "weight_hh_l0"))
            /\ kind \in whitelist_weight_modules
    THEN "decay"
    ELSE IF EndsWith(pn, "weight") /\ kind \in blacklist_weight_modules
    THEN "no_decay"
    ELSE "none"

\* lines 53-70: the full names the two loops add to the given bucket
ClassifiedIn(mdl, m, bucket) ==
    LET ps == named_parameters(mdl, m)
    IN  { mdl.nodes[m].path \o ps[j].pn :
            j \in { x \in DOMAIN ps : Bucket(mdl.nodes[m].kind, ps[x].pn) = bucket } }

Classified(mdl, bucket) == UNION { ClassifiedIn(mdl, m, bucket) : m \in DOMAIN mdl.nodes }

\* lines 49-102
configure_optimizers(mdl) ==
    LET decay == Classified(mdl, "decay") \ {<<"lm_head", "weight">>}
        no_decay == Classified(mdl, "no_decay")
        rootps == named_parameters(mdl, 1)
        param_dict == { rootps[j].pn : j \in DOMAIN rootps }
        inter_params == decay \cap no_decay
        union_params == decay \cup no_decay
    IN  [status |-> IF inter_params # {} THEN "AssertionError"
                    ELSE IF param_dict \ union_params # {} THEN "AssertionError"
                    ELSE IF union_params \ param_dict # {} THEN "KeyError"
                    ELSE "ok",
         decay |-> decay, no_decay |-> no_decay, param_dict |-> param_dict]

NotConfigured == [status |-> "none", decay |-> {}, no_decay |-> {}, param_dict |-> {}]

InitOptim ==
    /\ \E n \in 0..MaxModules :
         \E kinds \in [0..n -> ModuleKinds], names \in [1..n -> ModuleNames],
            parents \in [1..n -> 0..(MaxModules - 1)], tied \in BOOLEAN :
            /\ \A i \in 1..n : parents[i] < i
            /\ WellFormed(TreeOf(n, kinds, parents, names))
            /\ tied => Cardinality(WeightNodes(TreeOf(n, kinds, parents, names))) >= 2
            /\ model = [nodes |-> TreeOf(n, kinds, parents, names), tied |-> tied]
    /\ opt_ret = NotConfigured
    /\ visit_counts = Idle /\ temperature = Idle /\ scalar = Idle
    /\ det_ret = Idle /\ sto_ret = Idle
    /\ obs_batch_ori = Idle /\ cfg = Idle /\ obs_ret = Idle
    /\ output_lst = Idle /\ data_type = Idle /\ cat_ret = Idle

ConfigureOptimizers ==
    /\ opt_ret' = configure_optimizers(model)
    /\ UNCHANGED <<model, selectVars, obsVars, catVars>>

NextOptim == ConfigureOptimizers

SpecOptim == InitOptim /\ [][NextOptim]_vars

\* C2: at the two assertions the decay and no-decay sets are disjoint and their union is
\* the model's named-parameter set, so no assertion fails, whatever the model
C2_ParametersPartitioned ==
    opt_ret # NotConfigured =>
        /\ opt_ret.decay \cap opt_ret.no_decay = {}
        /\ opt_ret.decay \cup opt_ret.no_decay = opt_ret.param_dict
        /\ opt_ret.status # "AssertionError"

----------------------------------------------------------------------------
(* prepare_obs *)

BatchSizes == {1, 2}
\* channels of an image observation, or length of a vector observation
UnitSizes == {1, 3}
\* height and width of an image observation
SpatialSizes == {2, 96}
DTypes == {"uint8", "float64"}

Range0(n) == [i \in 1..n |-> i - 1]

\* an array is its shape, the source indices of its entries along axis 1, and its dtype
ObsShapes ==
    UNION { { <<b, t * c, hw, hw>>, <<b, t, hw, hw, c>>, <<b, t * c>>, <<b, t, c>> } :
              <<b, t, c, hw>> \in BatchSizes \X (1..MaxTimesteps) \X UnitSizes \X SpatialSizes }

NdArray(shape, dtype) == [shape |-> shape, axis1 |-> Range0(shape[2]), dtype |-> dtype]

None == [shape |-> <<>>, axis1 |-> <<>>, dtype |-> "None"]

Configs ==
    [model_type : {"conv", "mlp", "other"},
     frame_stack_num : 1..MaxFrameStack,
     image_channel : UnitSizes,
     observation_shape : UnitSizes,
     self_supervised_learning_loss : BOOLEAN]

\* lines 134, 157: torch.from_numpy(obs_batch_ori).to(cfg.device).float()
ToFloatTensor(x) == [x EXCEPT !.dtype = "float32"]

\* x[:, start:stop] for 0 <= start, stop, with Python's clamping of the bounds
SliceAxis1(x, start, stop) ==
    LET n == Len(x.axis1)
        hi == IF stop < n THEN stop ELSE n
        lo == IF start < hi THEN start ELSE hi
    IN  [x EXCEPT !.axis1 = SubSeq(x.axis1, lo + 1, hi),
                  !.shape = [x.shape EXCEPT ![2] = hi - lo]]

ObsNotCalled == [status |-> "none", obs_batch |-> None, obs_target_batch |-> None]
ObsRaised(e) == [status |-> e, obs_batch |-> None, obs_target_batch |-> None]

\* the conv branch with the target cut after the whole first stack
ConvBranch_TargetAfterStack(x, c) ==
    IF Len(x.shape) < 4 THEN ObsRaised("IndexError")
    ELSE LET t == ToFloatTensor(x)
         IN  [status |-> "ok",
              obs_batch |-> SliceAxis1(t, 0, c.frame_stack_num * c.image_channel),
              obs_target_batch |->
                  IF c.self_supervised_learning_loss
                  THEN SliceAxis1(t, c.frame_stack_num * c.image_channel, Len(t.axis1))
                  ELSE None]

\* lines 134-142: the 'conv' branch; four index slots need an input of 4 or more axes
ConvBranch(x, c) ==
    IF Len(x.shape) < 4 THEN ObsRaised("IndexError")
    ELSE LET t == ToFloatTensor(x)
         IN  [status |-> "ok",
              obs_batch |-> SliceAxis1(t, 0, c.frame_stack_num * c.image_channel),
              obs_target_batch |->
                  IF c.self_supervised_learning_loss
                  THEN SliceAxis1(t, c.image_channel, Len(t.axis1))
                  ELSE None]

\* the mlp branch reading the image channel count instead of the observation length
MlpBranch_ImageChannel(x, c) ==
    LET t == ToFloatTensor(x)
    IN  [status |-> "ok",
         obs_batch |-> SliceAxis1(t, 0, c.frame_stack_num * c.image_channel),
         obs_target_batch |->
             IF c.self_supervised_learning_loss
             THEN SliceAxis1(t, c.image_channel, Len(t.axis1))
             ELSE None]

\* lines 157-165: the 'mlp' branch
MlpBranch(x, c) ==
    LET t == ToFloatTensor(x)
    IN  [status |-> "ok",
         obs_batch |-> SliceAxis1(t, 0, c.frame_stack_num * c.observation_shape),
         obs_target_batch |->
             IF c.self_supervised_learning_loss
             THEN SliceAxis1(t, c.observation_shape, Len(t.axis1))
             ELSE None]

\* lines 105-167; with any other model_type obs_batch is unbound at the return
prepare_obs(x, c) ==
    IF c.model_type = "conv" THEN ConvBranch(x, c)
    ELSE IF c.model_type = "mlp" THEN MlpBranch(x, c)
    ELSE ObsRaised("UnboundLocalError")

InitObs ==
    /\ \E shape \in ObsShapes, dtype \in DTypes : obs_batch_ori = NdArray(shape, dtype)
    /\ cfg \in Configs
    /\ obs_ret = ObsNotCalled
    /\ visit_counts = Idle /\ temperature = Idle /\ scalar = Idle
    /\ det_ret = Idle /\ sto_ret = Idle
    /\ model = Idle /\ opt_ret = Idle
    /\ output_lst = Idle /\ data_type = Idle /\ cat_ret = Idle

PrepareObs ==
    /\ obs_ret' = prepare_obs(obs_batch_ori, cfg)
    /\ UNCHANGED <<obs_batch_ori, cfg, selectVars, optVars, catVars>>

NextObs == PrepareObs

SpecObs == InitObs /\ [][NextObs]_vars

\* channels in image mode, observation length in vector mode
UnitSize == IF cfg.model_type = "conv" THEN cfg.image_channel ELSE cfg.observation_shape

StackedAxisLen == obs_batch_ori.shape[2]

\* the second axis is the flattened stacked axis of the selected mode
FlattenedInput ==
    \/ cfg.model_type = "conv" /\ Len(obs_batch_ori.shape) = 4
    \/ cfg.model_type = "mlp" /\ Len(obs_batch_ori.shape) = 2

\* array a holds exactly the entries lo, lo+1, ..., hi-1 of axis 1 of the input that
\* exist, in order, and every other axis whole
HoldsEntries(a, lo, hi) ==
    LET kept == { i \in 0..(StackedAxisLen - 1) : lo <= i /\ i < hi }
    IN  /\ Len(a.axis1) = Cardinality(kept)
        /\ \A k \in DOMAIN a.axis1 : a.axis1[k] = lo + k - 1
        /\ Len(a.shape) = Len(obs_batch_ori.shape)
        /\ \A d \in DOMAIN a.shape :
              a.shape[d] = IF d = 2 THEN Cardinality(kept) ELSE obs_batch_ori.shape[d]

\* C5: on a flattened batch the current batch is the entries [0, frame_stack_num*unit)
\* of axis 1 and the target batch is the entries [unit, end) when the consistency-loss
\* flag is set and None when it is not; all other axes are left whole
C5_SlicesOfStackedAxis ==
    (FlattenedInput /\ obs_ret # ObsNotCalled) =>
        /\ obs_ret.status = "ok"
        /\ HoldsEntries(obs_ret.obs_batch, 0, cfg.frame_stack_num * UnitSize)
        /\ IF cfg.self_supervised_learning_loss
           THEN HoldsEntries(obs_ret.obs_target_batch, UnitSize, StackedAxisLen)
           ELSE obs_ret.obs_target_batch = None

\* a vector-mode call whose two unit sizes differ and whose batch leaves entries on
\* both sides of each cut
C5_Witness ==
    /\ FlattenedInput /\ cfg.model_type = "mlp"
    /\ cfg.observation_shape # cfg.image_channel
    /\ cfg.self_supervised_learning_loss
    /\ StackedAxisLen > cfg.frame_stack_num * UnitSize
    /\ obs_ret.status = "ok"
    /\ Len(obs_ret.obs_target_batch.axis1) > 0

C7_ShortAxisFails ==
    ( /\ cfg.model_type \in {"conv", "mlp"}
      /\ StackedAxisLen < cfg.frame_stack_num * UnitSize
      /\ obs_ret # ObsNotCalled ) =>
        obs_ret.status # "ok"

----------------------------------------------------------------------------
(* concat_output *)

\* action-space sizes: the trailing dimension of policy_logits
ActionDims == {2, 3}

\* rows 1..b of field fld of the model output at position pos of the list
Rows(pos, fld, b) == [k \in 1..b |-> [rec |-> pos, fld |-> fld, row |-> k]]

\* a muzero network output: value, reward, policy_logits, latent_state
MZOutput(pos, b, adim) ==
    [value |-> [shape |-> <<b, 1>>, rows |-> Rows(pos, "value", b)],
     reward |-> [shape |-> <<b, 1>>, rows |-> Rows(pos, "reward", b)],
     policy_logits |-> [shape |-> <<b, adim>>, rows |-> Rows(pos, "policy_logits", b)],
     latent_state |-> [shape |-> <<b, 1>>, rows |-> Rows(pos, "latent_state", b)]]

\* an efficientzero network output: value_prefix instead of reward, and the pair
\* reward_hidden_state of arrays of shape (1, batch, hidden)
EZOutput(pos, b, adim) ==
    [value |-> [shape |-> <<b, 1>>, rows |-> Rows(pos, "value", b)],
     value_prefix |-> [shape |-> <<b, 1>>, rows |-> Rows(pos, "value_prefix", b)],
     policy_logits |-> [shape |-> <<b, adim>>, rows |-> Rows(pos, "policy_logits", b)],
     latent_state |-> [shape |-> <<b, 1>>, rows |-> Rows(pos, "latent_state", b)],
     reward_hidden_state |->
         <<[shape |-> <<1, b, 1>>, rows |-> Rows(pos, "hidden_c", b)],
           [shape |-> <<1, b, 1>>, rows |-> Rows(pos, "hidden_h", b)]>>]

OutputKinds == {"mz", "ez"}

\* the list of n outputs described by d: the kind, batch length and action-space size of
\* each output
OutputListOf(n, d) ==
    [i \in 1..n |-> IF d[i][1] = "mz" THEN MZOutput(i, d[i][2], d[i][3])
                    ELSE EZOutput(i, d[i][2], d[i][3])]

DataTypes == {"muzero", "efficientzero", "alphazero"}

HasAttr(output, name) == name \in DOMAIN output

\* a.squeeze(0) of an array whose axis 0 has length 1
Squeeze0(a) == [a EXCEPT !.shape = Tail(a.shape)]

\* np.expand_dims(a, axis=0)
ExpandDims0(a) == [a EXCEPT !.shape = <<1>> \o a.shape]

BadArray == [shape |-> <<>>, rows |-> <<>>]

RECURSIVE JoinRows(_)
JoinRows(arrays) ==
    IF arrays = <<>> THEN <<>> ELSE Head(arrays).rows \o JoinRows(Tail(arrays))

\* np.concatenate(arrays): along axis 0, in list order; an empty list or arrays whose
\* trailing dimensions differ raise ValueError
np_concatenate(arrays) ==
    IF arrays = <<>> THEN [status |-> "ValueError", a |-> BadArray]
    ELSE IF \E i \in DOMAIN arrays : Tail(arrays[i].shape) # Tail(arrays[1].shape)
    THEN [status |-> "ValueError", a |-> BadArray]
    ELSE [status |-> "ok",
          a |-> [shape |-> <<SumSeq([i \in DOMAIN arrays |-> arrays[i].shape[1]])>>
                             \o Tail(arrays[1].shape),
                 rows |-> JoinRows(arrays)]]

EmptyLists ==
    [status |-> "ok", value_lst |-> <<>>, reward_lst |-> <<>>, policy_logits_lst |-> <<>>,
     latent_state_lst |-> <<>>, reward_hidden_state_c_lst |-> <<>>,
     reward_hidden_state_h_lst |-> <<>>]

\* the loop body with the reward list filled from output.value
AppendOutput_RewardFromValue(acc, output, dt) ==
    IF dt = "muzero" /\ ~HasAttr(output, "reward")
    THEN [acc EXCEPT !.status = "AttributeError"]
    ELSE IF dt = "efficientzero" /\ ~(HasAttr(output, "value_prefix")
                                        /\ HasAttr(output, "reward_hidden_state"))
    THEN [acc EXCEPT !.status = "AttributeError"]
    ELSE [acc EXCEPT
            !.value_lst = Append(@, output.value),
            !.reward_lst = Append(@, output.value),
            !.policy_logits_lst = Append(@, output.policy_logits),
            !.latent_state_lst = Append(@, output.latent_state),
            !.reward_hidden_state_c_lst =
                IF dt = "efficientzero" THEN Append(@, Squeeze0(output.reward_hidden_state[1]))
                ELSE @,
            !.reward_hidden_state_h_lst =
                IF dt = "efficientzero" THEN Append(@, Squeeze0(output.reward_hidden_state[2]))
                ELSE @]

\* lines 266-276: one pass of the loop body; reading an attribute the output does not
\* have raises AttributeError
AppendOutput(acc, output, dt) ==
    IF dt = "muzero" /\ ~HasAttr(output, "reward")
    THEN [acc EXCEPT !.status = "AttributeError"]
    ELSE IF dt = "efficientzero" /\ ~(HasAttr(output, "value_prefix")
                                        /\ HasAttr(output, "reward_hidden_state"))
    THEN [acc EXCEPT !.status = "AttributeError"]
    ELSE [acc EXCEPT
            !.value_lst = Append(@, output.value),
            !.reward_lst = Append(@, IF dt = "muzero" THEN output.reward
                                     ELSE output.value_prefix),
            !.policy_logits_lst = Append(@, output.policy_logits),
            !.latent_state_lst = Append(@, output.latent_state),
            !.reward_hidden_state_c_lst =
                IF dt = "efficientzero" THEN Append(@, Squeeze0(output.reward_hidden_state[1]))
                ELSE @,
            !.reward_hidden_state_h_lst =
                IF dt = "efficientzero" THEN Append(@, Squeeze0(output.reward_hidden_state[2]))
                ELSE @]

\* lines 265-276: for output in output_lst, from position i on
RECURSIVE CollectOutputs(_, _, _, _)
CollectOutputs(lst, dt, i, acc) ==
    IF i > Len(lst) \/ acc.status # "ok" THEN acc
    ELSE CollectOutputs(lst, dt, i + 1, AppendOutput(acc, lst[i], dt))

CatNotCalled ==
    [status |-> "none", value_lst |-> BadArray, reward_lst |-> BadArray,
     policy_logits_lst |-> BadArray, latent_state_lst |-> BadArray,
     reward_hidden_state |-> <<>>]
CatRaised(e) == [CatNotCalled EXCEPT !.status = e]

\* lines 251-289
concat_output(lst, dt) ==
    IF dt \notin {"muzero", "efficientzero"} THEN CatRaised("AssertionError")
    ELSE LET acc == CollectOutputs(lst, dt, 1, EmptyLists)
             v == np_concatenate(acc.value_lst)
             r == np_concatenate(acc.reward_lst)
             p == np_concatenate(acc.policy_logits_lst)
             l == np_concatenate(acc.latent_state_lst)
             c == np_concatenate(acc.reward_hidden_state_c_lst)
             h == np_concatenate(acc.reward_hidden_state_h_lst)
         IN  IF acc.status # "ok" THEN CatRaised(acc.status)
             ELSE IF \E x \in {v, r, p, l} : x.status # "ok" THEN CatRaised("ValueError")
             ELSE IF dt = "muzero"
             THEN [status |-> "ok", value_lst |-> v.a, reward_lst |-> r.a,
                   policy_logits_lst |-> p.a, latent_state_lst |-> l.a,
                   reward_hidden_state |-> <<>>]
             ELSE IF c.status # "ok" \/ h.status # "ok" THEN CatRaised("ValueError")
             ELSE [status |-> "ok", value_lst |-> v.a, reward_lst |-> r.a,
                   policy_logits_lst |-> p.a, latent_state_lst |-> l.a,
                   reward_hidden_state |-> <<ExpandDims0(c.a), ExpandDims0(h.a)>>]

InitConcat ==
    /\ \E n \in 0..MaxRecords :
         \E d \in [1..n -> OutputKinds \X (1..MaxBatch) \X ActionDims] :
            output_lst = OutputListOf(n, d)
    /\ data_type \in DataTypes
    /\ cat_ret = CatNotCalled
    /\ visit_counts = Idle /\ temperature = Idle /\ scalar = Idle
    /\ det_ret = Idle /\ sto_ret = Idle
    /\ model = Idle /\ opt_ret = Idle
    /\ obs_batch_ori = Idle /\ cfg = Idle /\ obs_ret = Idle

ConcatOutput ==
    /\ cat_ret' = concat_output(output_lst, data_type)
    /\ UNCHANGED <<output_lst, data_type, selectVars, optVars, obsVars>>

NextConcat == ConcatOutput

SpecConcat == InitConcat /\ [][NextConcat]_vars

\* a non-empty list of muzero outputs whose fields can be concatenated
ConcatenableOutputs ==
    /\ output_lst # <<>>
    /\ \A i \in DOMAIN output_lst :
          /\ HasAttr(output_lst[i], "reward")
          /\ output_lst[i].policy_logits.shape[2] = output_lst[1].policy_logits.shape[2]

BatchLen(i) == output_lst[i].value.shape[1]

\* number of rows of the outputs before position i
RowsBefore(i) == SumSeq([j \in 1..(i - 1) |-> BatchLen(j)])

\* the returned array holds the rows of the given field of every output, the rows of
\* output i right after those of the outputs before it
IsConcatenationOf(returned, fld) ==
    /\ returned.shape[1] = RowsBefore(Len(output_lst) + 1)
    /\ Len(returned.rows) = RowsBefore(Len(output_lst) + 1)
    /\ \A i \in DOMAIN output_lst : \A k \in 1..BatchLen(i) :
          returned.rows[RowsBefore(i) + k] = output_lst[i][fld].rows[k]

\* C8: for a non-empty list of outputs the 'muzero' variant returns value, reward,
\* policy_logits and latent_state, each the concatenation along the batch axis of that
\* field of the outputs in list order, of batch length the sum of the batch lengths
C8_BasicConcatenation ==
    (data_type = "muzero" /\ ConcatenableOutputs /\ cat_ret # CatNotCalled) =>
        /\ cat_ret.status = "ok"
        /\ IsConcatenationOf(cat_ret.value_lst, "value")
        /\ IsConcatenationOf(cat_ret.reward_lst, "reward")
        /\ IsConcatenationOf(cat_ret.policy_logits_lst, "policy_logits")
        /\ IsConcatenationOf(cat_ret.latent_state_lst, "latent_state")

\* three outputs of unequal batch lengths were concatenated
C8_Witness ==
    /\ data_type = "muzero" /\ ConcatenableOutputs
    /\ Len(output_lst) = 3
    /\ BatchLen(1) # BatchLen(2)
    /\ cat_ret.status = "ok"
    /\ cat_ret.value_lst.shape[1] >= 4

====
